---- MODULE Spec2Model ----
(***************************************************************************)
(* Model of asrequests.AsRequests: a batch of HTTP GET/POST requests run   *)
(* on an asyncio event loop, each blocking call off-loaded to the loop's   *)
(* thread pool, with three callback modes.                                 *)
(*                                                                         *)
(* The main thread is the coordinator: it runs the body of the `with`      *)
(* block, then __exit__ -> _executeTasks, which runs the event loop.  The  *)
(* event loop is modelled by its FIFO queue of ready handles (`ready`):    *)
(* call_soon / call_soon_threadsafe append, the loop pops the head.        *)
(* Worker threads (the HTTP calls, and in mode 2 the callbacks) run        *)
(* concurrently with the main thread.                                      *)
(***************************************************************************)
EXTENDS Integers, Sequences, FiniteSets, TLC

\* ---- bounds -------------------------------------------------------------
MaxReq == 2
MaxScopes == 2
MaxCalls == 2
MaxCbTasks == 3

\* ---- values -------------------------------------------------------------
Methods == {"GET", "POST"}

Modes == {1, 2, 3}

Callbacks == {"default", "user"}

Handlers == {"default", "raising"}

\* the functions setCallback is handed
UserCallbacks == {"user", "other"}

NoRec == [req |-> 0, kind |-> "None"]

Response(id) == [req |-> id, kind |-> "Response"]

ErrorRequest(id) == [req |-> id, kind |-> "ErrorRequest"]

Records == {Response(i) : i \in 1..MaxReq} \cup {ErrorRequest(i) : i \in 1..MaxReq}

Range(s) == {s[k] : k \in 1..Len(s)}

Handle(h, id, fn, data) == [h |-> h, id |-> id, fn |-> fn, data |-> data]

VARIABLES
    callbackMode,           \* self.callbackMode
    callback,               \* self.callback: "default" (the result-appending lambda) or "user"
    exceptionHandler,       \* self.exceptionHandler: "default" (print) or a user handler that raises
    tasks,                  \* self.tasks: sequence of task ids
    result,                 \* self.result: sequence of records
    blockingCallbackTasks,  \* self.blockingCallbackTasks: sequence of [rec, fn, st]
    asyncCallbackTasks,     \* self.asyncCallbackTasks: what self.callback(response) returned
    asyncTasks,             \* the asyncio.Task list built at line 251: sequence of [rec, st]
    task,                   \* every Task created by get/post, by id
    ready,                  \* the FIFO of ready handles of the current event loop
    curLoop,                \* identity of the current event loop (asyncio.get_event_loop())
    counter,                \* asyncio.wait's count of futures not yet completed
    iter,                   \* position of `for i in self.result` (line 253)
    pc,                     \* where the main thread is
    raised,                 \* exception that the last _executeTasks call propagated
    scopes,                 \* number of scopes entered
    calls,                  \* number of _executeTasks calls since the scope was entered
    cbCalls,                \* invocations of the user callback, per record
    handlerCalls,           \* invocations of the exception handler, per request
    deliveredTo,            \* the callbacks each record was passed to
    bodyRaised              \* an exception left the `with` body and is pending in __exit__

vars == <<callbackMode, callback, exceptionHandler, tasks, result,
          blockingCallbackTasks, asyncCallbackTasks, asyncTasks, task, ready,
          curLoop, counter, iter, pc, raised, scopes, calls, cbCalls, handlerCalls,
          deliveredTo, bodyRaised>>

config == <<callbackMode, callback, exceptionHandler>>

\* ---- AsRequests.__init__ ---------------------------------------------------
Init ==
    /\ callbackMode \in Modes
    /\ callback \in Callbacks
    /\ exceptionHandler \in Handlers
    /\ tasks = <<>>
    /\ result = <<>>
    /\ blockingCallbackTasks = <<>>
    /\ asyncCallbackTasks = <<>>
    /\ asyncTasks = <<>>
    /\ task = <<>>
    /\ ready = <<>>
    /\ curLoop = 0
    /\ counter = 0
    /\ iter = 0
    /\ pc = "out"
    /\ raised = "none"
    /\ scopes = 0
    /\ calls = 0
    /\ cbCalls = [r \in Records |-> 0]
    /\ handlerCalls = [i \in 1..MaxReq |-> 0]
    /\ deliveredTo = [r \in Records |-> {}]
    /\ bodyRaised = FALSE

\* ---- AsRequests.__enter__ --------------------------------------------------
Enter ==
    /\ pc = "out"
    /\ scopes < MaxScopes
    /\ tasks' = <<>>
    /\ result' = <<>>
    /\ blockingCallbackTasks' = <<>>
    /\ asyncCallbackTasks' = <<>>
    /\ pc' = "body"
    /\ scopes' = scopes + 1
    /\ calls' = 0
    /\ raised' = "none"
    /\ asyncTasks' = <<>>
    /\ bodyRaised' = FALSE
    /\ UNCHANGED <<config, deliveredTo, task, ready, curLoop, counter, iter,
                   cbCalls, handlerCalls>>

\* ---- get / post: ensure_future(self._get(...)); self.tasks.append(future) ---
\* ensure_future creates a Task on the current loop and schedules its first
\* step with call_soon.
\* Besides the Task's own state the record keeps what the caller can observe
\* of it: inScope (get/post was called inside the current `with` body), order
\* (its rank among the completions the loop has processed, 0 before), res (the
\* value the future resolves to, NoRec while pending or when it carries an
\* exception), handledBy (the handler the except clause called, "-" if none).
NewTask(method) ==
    [method |-> method, loop |-> curLoop, st |-> "scheduled", http |-> "none",
     waited |-> FALSE, exc |-> FALSE,
     scope |-> IF pc = "body" THEN scopes ELSE 0,
     order |-> 0, res |-> NoRec, handledBy |-> "-",
     cbAtEnqueue |-> callback, handlerAtEnqueue |-> exceptionHandler]

Enqueue(method) ==
    /\ Len(task) < MaxReq
    /\ task' = Append(task, NewTask(method))
    /\ ready' = Append(ready, Handle("step", Len(task) + 1, "-", NoRec))
    /\ tasks' = Append(tasks, Len(task) + 1)
    /\ UNCHANGED <<config, deliveredTo, bodyRaised, result, blockingCallbackTasks, asyncCallbackTasks,
                   asyncTasks, curLoop, counter, iter, pc, raised, scopes,
                   calls, cbCalls, handlerCalls>>

get ==
    /\ pc = "body"
    /\ Enqueue("GET")

post ==
    /\ pc = "body"
    /\ Enqueue("POST")

\* get called on the dispatcher outside a `with` body (as the docstring's
\* coroutine usage and the module-level `asrequests` instance allow): the Task
\* is scheduled on the current loop and stays there when __enter__ replaces
\* self.tasks.
getOutside ==
    /\ pc = "out"
    /\ Enqueue("GET")

\* _aHttpRequest handed a method that is neither GET nor POST, scheduled and
\* tracked the way get and post do it
aHttpRequestOther ==
    /\ pc = "body"
    /\ Enqueue("PUT")

\* ---- __exit__ / _executeTasks, line 246 ------------------------------------
\* run_until_complete(asyncio.wait(self.tasks)) wraps the wait coroutine in a
\* Task of the current loop (first step scheduled with call_soon) and runs the
\* loop until that Task is done.
executeTasksStart ==
    /\ ready' = Append(ready, Handle("wait", 0, "-", NoRec))
    /\ pc' = "wait"
    /\ calls' = calls + 1
    /\ UNCHANGED <<config, deliveredTo, tasks, result, blockingCallbackTasks,
                   asyncCallbackTasks, asyncTasks, task, curLoop, counter, iter,
                   raised, scopes, cbCalls, handlerCalls>>

\* variant: __exit__ ends without a return value (None is falsy)
exitValueNone == FALSE

\* line 191, `return True`: the value __exit__ hands back to the `with`
\* statement once _executeTasks has returned.
exitValue == TRUE

\* __exit__ at the end of the body: self._executeTasks(); return True
exit ==
    /\ pc = "body"
    /\ executeTasksStart
    /\ UNCHANGED bodyRaised

\* a statement of the body raises: the `with` statement calls __exit__ with the
\* exception, which runs the same two lines.
raiseInBody ==
    /\ pc = "body"
    /\ executeTasksStart
    /\ bodyRaised' = TRUE

\* what the `with` statement raises to its caller when __exit__ is over: an
\* exception of _executeTasks replaces the body's; otherwise the body's
\* exception is re-raised unless __exit__ returned a true value.
Propagated ==
    IF raised # "none" THEN raised
    ELSE IF bodyRaised /\ ~exitValue THEN "body"
    ELSE "none"

\* _executeTasks called again on the same batch, after __exit__ returned
executeTasks ==
    /\ pc = "out"
    /\ calls >= 1
    /\ calls < MaxCalls
    /\ raised = "none"
    /\ executeTasksStart
    /\ UNCHANGED bodyRaised

\* ---- _httpRequest (runs in a worker thread) --------------------------------
\* net is what the HTTP client does: "ok" (a response) or "fail" (it raises).
\* A method that is neither GET nor POST leaves `data` unbound, so `return
\* data` raises UnboundLocalError in the worker.
httpRequest(method, net) ==
    IF method \in Methods THEN net ELSE "fail"

\* the first step of the Task: _aHttpRequest up to `yield from future`;
\* run_in_executor hands _httpRequest to the thread pool.
RunStep ==
    /\ pc = "wait"
    /\ ready # <<>>
    /\ Head(ready).h = "step"
    /\ LET i == Head(ready).id IN
         task' = [task EXCEPT ![i].st = "awaiting", ![i].http = "running"]
    /\ ready' = Tail(ready)
    /\ UNCHANGED <<config, deliveredTo, bodyRaised, tasks, result, blockingCallbackTasks,
                   asyncCallbackTasks, asyncTasks, curLoop, counter, iter, pc,
                   raised, scopes, calls, cbCalls, handlerCalls>>

\* the worker thread finishes the HTTP call; the executor future wakes the
\* Task through call_soon_threadsafe on the loop the Task belongs to.
HttpDone(i) ==
    /\ task[i].http = "running"
    /\ \E net \in {"ok", "fail"} :
         task' = [task EXCEPT ![i].http = httpRequest(task[i].method, net)]
    /\ ready' = IF task[i].loop = curLoop
                THEN Append(ready, Handle("wakeup", i, "-", NoRec))
                ELSE ready
    /\ UNCHANGED <<config, deliveredTo, bodyRaised, tasks, result, blockingCallbackTasks,
                   asyncCallbackTasks, asyncTasks, curLoop, counter, iter, pc,
                   raised, scopes, calls, cbCalls, handlerCalls>>

\* ---- _aHttpRequest, lines 218-234 ------------------------------------------
\* variant: the except clause does not replace the result of a failed call
DataAlwaysResponse(i, outcome) ==
    Response(i)

\* try: data = yield from future / except Exception as e: data = ErrorRequest
Data(i, outcome) ==
    IF outcome = "ok" THEN Response(i) ELSE ErrorRequest(i)

\* variant: the handler is called for every request, failed or not
HandlerInvocationsAlways(outcome) ==
    1

\* except clause, line 226: self.exceptionHandler(e), once for a failed call
HandlerInvocations(outcome) ==
    IF outcome = "fail" THEN 1 ELSE 0

\* variant: the handler called is the one that was set when the request was
\* enqueued
exceptHandlerCaptured(i, outcome) ==
    IF outcome = "fail" THEN task[i].handlerAtEnqueue ELSE "-"

\* line 226 reads self.exceptionHandler when the except clause runs
exceptHandler(i, outcome) ==
    IF outcome = "fail" THEN exceptionHandler ELSE "-"

\* variant: the callback is scheduled in an `else:` clause, not in `finally:`
FinallyOnSuccess(q, i, data) ==
    IF data.kind = "ErrorRequest" THEN q
    ELSE Append(q, Handle("cb", i,
                          IF callbackMode = 3 THEN "asyncCallback"
                          ELSE IF callbackMode = 2 THEN "blockingCallback"
                          ELSE callback,
                          data))

\* variant: mode 2 schedules self.callback itself, as mode 1 does
FinallyDirect(q, i, data) ==
    Append(q, Handle("cb", i,
                     IF callbackMode = 3 THEN "asyncCallback" ELSE callback,
                     data))

\* finally clause, lines 228-233: the callback is scheduled on the loop, the
\* function picked by callbackMode (self.callback is read here in mode 1).
Finally(q, i, data) ==
    Append(q, Handle("cb", i,
                     IF callbackMode = 3 THEN "asyncCallback"
                     ELSE IF callbackMode = 2 THEN "blockingCallback"
                     ELSE callback,
                     data))

\* line 234, `return data`: the future resolves to data, unless the handler
\* called in the except clause raised: then that exception leaves the
\* coroutine after the finally clause and the future carries it.
TaskResult(data, handlerRaised) ==
    IF handlerRaised THEN NoRec ELSE data

\* the Task is done: its done-callbacks are scheduled (asyncio.wait's
\* _on_completion when the Task is being waited for).
Completed(q, i) ==
    IF task[i].waited THEN Append(q, Handle("on_completion", i, "-", NoRec)) ELSE q

RunWakeup ==
    /\ pc = "wait"
    /\ ready # <<>>
    /\ Head(ready).h = "wakeup"
    /\ LET i == Head(ready).id
           outcome == task[i].http
           data == Data(i, outcome)
       IN /\ handlerCalls' = [handlerCalls EXCEPT ![i] = @ + HandlerInvocations(outcome)]
          /\ task' = [task EXCEPT
                        ![i].st = "done",
                        ![i].exc = (exceptHandler(i, outcome) = "raising"),
                        ![i].res = TaskResult(data, exceptHandler(i, outcome) = "raising"),
                        ![i].handledBy = exceptHandler(i, outcome),
                        ![i].order = 1 + Cardinality({j \in 1..Len(task) : task[j].st = "done"})]
          /\ ready' = Completed(Finally(Tail(ready), i, data), i)
    /\ UNCHANGED <<config, deliveredTo, bodyRaised, tasks, result, blockingCallbackTasks,
                   asyncCallbackTasks, asyncTasks, curLoop, counter, iter, pc,
                   raised, scopes, calls, cbCalls>>

\* ---- the callbacks of __init__, lines 156-166 ------------------------------
\* variant: an append that overwrites the last slot (a lost update)
defaultCallbackLost(res, data) ==
    IF res = <<>> THEN <<data>> ELSE [res EXCEPT ![Len(res)] = data]

\* variant: the record is inserted at the front of the list
defaultCallbackFront(res, data) ==
    <<data>> \o res

\* line 156: lambda response: self.result.append(response)
defaultCallback(res, data) ==
    Append(res, data)

\* variant: the record is appended twice
blockingCallbackTwice(res, data) ==
    Append(Append(res, data), data)

\* line 161: lambda response: self.result.append(response)
blockingCallback(res, data) ==
    Append(res, data)

None == [coro |-> FALSE, rec |-> NoRec]

Coroutine(data) == [coro |-> TRUE, rec |-> data]

\* self.callback(data) with self.callback = fn: the default appends to
\* self.result and returns None; a user callback is invoked with the record
\* (in mode 3 it is an async function, so the call returns a coroutine).
CallCallback(fn, data) ==
    IF fn = "default"
    THEN [result |-> defaultCallback(result, data), cbCalls |-> cbCalls, ret |-> None,
          deliveredTo |-> [deliveredTo EXCEPT ![data] = @ \cup {fn}]]
    ELSE [result |-> result, cbCalls |-> [cbCalls EXCEPT ![data] = @ + 1],
          ret |-> Coroutine(data),
          deliveredTo |-> [deliveredTo EXCEPT ![data] = @ \cup {fn}]]

\* line 166: lambda response: self.asyncCallbackTasks.append(self.callback(response))
asyncCallback(acts, ret) ==
    Append(acts, ret)

\* the loop runs the handle scheduled by the finally clause
RunCallback ==
    /\ pc = "wait"
    /\ ready # <<>>
    /\ Head(ready).h = "cb"
    /\ LET fn == Head(ready).fn
           data == Head(ready).data
       IN IF fn = "blockingCallback"
          THEN /\ result' = blockingCallback(result, data)
               /\ UNCHANGED <<cbCalls, asyncCallbackTasks, deliveredTo>>
          ELSE IF fn = "asyncCallback"
          THEN LET c == CallCallback(callback, data) IN
               /\ result' = c.result
               /\ cbCalls' = c.cbCalls
               /\ deliveredTo' = c.deliveredTo
               /\ asyncCallbackTasks' = asyncCallback(asyncCallbackTasks, c.ret)
          ELSE LET c == CallCallback(fn, data) IN
               /\ result' = c.result
               /\ cbCalls' = c.cbCalls
               /\ deliveredTo' = c.deliveredTo
               /\ UNCHANGED asyncCallbackTasks
    /\ ready' = Tail(ready)
    /\ UNCHANGED <<config, bodyRaised, tasks, blockingCallbackTasks, asyncTasks, task,
                   curLoop, counter, iter, pc, raised, scopes, calls,
                   handlerCalls>>

\* ---- asyncio.wait(self.tasks), line 246 ------------------------------------
\* asyncio.wait raises ValueError for an empty set, and (ensure_future with
\* the running loop) for a future that belongs to another loop.
WaitRaises(ts) ==
    \/ ts = <<>>
    \/ \E k \in 1..Len(ts) : task[ts[k]].loop # curLoop

\* variant: wait() returns when the first future completes
WaitCountFirst(ts) ==
    1

\* the number of futures wait() still waits for: all of them
WaitCount(ts) ==
    Cardinality(Range(ts))

DoneHandles(ts) ==
    LET done == SelectSeq(ts, LAMBDA i : task[i].st = "done")
    IN [k \in 1..Len(done) |-> Handle("on_completion", done[k], "-", NoRec)]

\* first step of the wait coroutine: it raises (run_until_complete then
\* re-raises to the caller of _executeTasks, the loop is not replaced), or it
\* adds _on_completion to every future and suspends.
RunWait ==
    /\ pc = "wait"
    /\ ready # <<>>
    /\ Head(ready).h = "wait"
    /\ IF WaitRaises(tasks)
       THEN /\ pc' = "out"
            /\ raised' = "ValueError"
            /\ ready' = Tail(ready)
            /\ UNCHANGED <<task, counter>>
       ELSE /\ counter' = WaitCount(tasks)
            /\ task' = [i \in 1..Len(task) |->
                          IF i \in Range(tasks) /\ task[i].st # "done"
                          THEN [task[i] EXCEPT !.waited = TRUE] ELSE task[i]]
            /\ ready' = Tail(ready) \o DoneHandles(tasks)
            /\ UNCHANGED <<pc, raised>>
    /\ UNCHANGED <<config, deliveredTo, bodyRaised, tasks, result, blockingCallbackTasks,
                   asyncCallbackTasks, asyncTasks, curLoop, iter, scopes, calls,
                   cbCalls, handlerCalls>>

\* _on_completion: the last future to complete resolves the waiter; the wait
\* Task then finishes and run_until_complete's callback stops the loop.
RunOnCompletion ==
    /\ pc = "wait"
    /\ ready # <<>>
    /\ Head(ready).h = "on_completion"
    /\ counter' = counter - 1
    /\ ready' = IF counter - 1 = 0
                THEN Append(Tail(ready), Handle("stop", 0, "-", NoRec))
                ELSE Tail(ready)
    /\ UNCHANGED <<config, deliveredTo, bodyRaised, tasks, result, blockingCallbackTasks,
                   asyncCallbackTasks, asyncTasks, task, curLoop, iter, pc,
                   raised, scopes, calls, cbCalls, handlerCalls>>

\* ---- _executeTasks, lines 248-257 ------------------------------------------
\* [asyncio.Task(_) for _ in self.asyncCallbackTasks]
AsyncTasksOf(acts) ==
    [k \in 1..Len(acts) |-> [rec |-> acts[k].rec, st |-> "pending"]]

\* asyncio.Task(x) raises TypeError when x is not a coroutine
TaskRaises(acts) ==
    \E k \in 1..Len(acts) : ~acts[k].coro

\* the first loop stops; newLoop replaces it (what is left on the old loop
\* never runs); then the branch on callbackMode.
RunStop ==
    /\ pc = "wait"
    /\ ready # <<>>
    /\ Head(ready).h = "stop"
    /\ curLoop' = curLoop + 1
    /\ ready' = <<>>
    /\ IF callbackMode = 3
       THEN IF TaskRaises(asyncCallbackTasks)
            THEN pc' = "out" /\ raised' = "TypeError" /\ UNCHANGED <<asyncTasks, iter>>
            ELSE IF asyncCallbackTasks = <<>>
            THEN pc' = "out" /\ raised' = "ValueError" /\ UNCHANGED <<asyncTasks, iter>>
            ELSE /\ asyncTasks' = AsyncTasksOf(asyncCallbackTasks)
                 /\ pc' = "cbwait"
                 /\ UNCHANGED <<raised, iter>>
       ELSE IF callbackMode = 2
       THEN pc' = "submit" /\ iter' = 1 /\ UNCHANGED <<raised, asyncTasks>>
       ELSE pc' = "out" /\ raised' = "none" /\ UNCHANGED <<asyncTasks, iter>>
    /\ UNCHANGED <<config, deliveredTo, bodyRaised, tasks, result, blockingCallbackTasks,
                   asyncCallbackTasks, task, counter, scopes, calls, cbCalls,
                   handlerCalls>>

\* lines 253-255: one iteration of `for i in self.result`: self.callback is
\* handed to the new loop's thread pool and the future is tracked.
Submit ==
    /\ pc = "submit"
    /\ iter <= Len(result)
    /\ Len(blockingCallbackTasks) < MaxCbTasks
    /\ blockingCallbackTasks' =
         Append(blockingCallbackTasks, [rec |-> result[iter], fn |-> callback, st |-> "queued"])
    /\ iter' = iter + 1
    /\ UNCHANGED <<config, deliveredTo, bodyRaised, tasks, result, asyncCallbackTasks, asyncTasks, task,
                   ready, curLoop, counter, pc, raised, scopes, calls, cbCalls,
                   handlerCalls>>

\* the for loop is exhausted; line 257 starts waiting (asyncio.wait raises
\* ValueError when nothing was submitted).
SubmitEnd ==
    /\ pc = "submit"
    /\ iter > Len(result)
    /\ IF blockingCallbackTasks = <<>>
       THEN pc' = "out" /\ raised' = "ValueError"
       ELSE pc' = "cbwait" /\ UNCHANGED raised
    /\ UNCHANGED <<config, deliveredTo, bodyRaised, tasks, result, blockingCallbackTasks,
                   asyncCallbackTasks, asyncTasks, task, ready, curLoop, counter,
                   iter, scopes, calls, cbCalls, handlerCalls>>

\* a pool thread invokes the callback submitted at line 254
CallbackStart(k) ==
    /\ k \in 1..Len(blockingCallbackTasks)
    /\ blockingCallbackTasks[k].st = "queued"
    /\ LET c == CallCallback(blockingCallbackTasks[k].fn, blockingCallbackTasks[k].rec) IN
         /\ result' = c.result
         /\ cbCalls' = c.cbCalls
         /\ deliveredTo' = c.deliveredTo
    /\ blockingCallbackTasks' = [blockingCallbackTasks EXCEPT ![k].st = "running"]
    /\ UNCHANGED <<config, bodyRaised, tasks, asyncCallbackTasks, asyncTasks, task, ready,
                   curLoop, counter, iter, pc, raised, scopes, calls,
                   handlerCalls>>

\* the callback returns; its future completes
CallbackDone(k) ==
    /\ k \in 1..Len(blockingCallbackTasks)
    /\ blockingCallbackTasks[k].st = "running"
    /\ blockingCallbackTasks' = [blockingCallbackTasks EXCEPT ![k].st = "done"]
    /\ UNCHANGED <<config, deliveredTo, bodyRaised, tasks, result, asyncCallbackTasks, asyncTasks, task,
                   ready, curLoop, counter, iter, pc, raised, scopes, calls,
                   cbCalls, handlerCalls>>

\* line 251: the new loop runs the body of a callback coroutine
AsyncStart(k) ==
    /\ pc = "cbwait"
    /\ k \in 1..Len(asyncTasks)
    /\ asyncTasks[k].st = "pending"
    /\ asyncTasks' = [asyncTasks EXCEPT ![k].st = "running"]
    /\ UNCHANGED <<config, deliveredTo, bodyRaised, tasks, result, blockingCallbackTasks,
                   asyncCallbackTasks, task, ready, curLoop, counter, iter, pc,
                   raised, scopes, calls, cbCalls, handlerCalls>>

AsyncDone(k) ==
    /\ pc = "cbwait"
    /\ k \in 1..Len(asyncTasks)
    /\ asyncTasks[k].st = "running"
    /\ asyncTasks' = [asyncTasks EXCEPT ![k].st = "done"]
    /\ UNCHANGED <<config, deliveredTo, bodyRaised, tasks, result, blockingCallbackTasks,
                   asyncCallbackTasks, task, ready, curLoop, counter, iter, pc,
                   raised, scopes, calls, cbCalls, handlerCalls>>

\* variant: the wait is over when any future is done
AllDoneAny(ts) ==
    \E k \in 1..Len(ts) : ts[k].st = "done"

\* asyncio.wait(...) of lines 251 / 257 is over when every future is done
AllDone(ts) ==
    \A k \in 1..Len(ts) : ts[k].st = "done"

\* newLoop.run_until_complete returns; _executeTasks returns
Return ==
    /\ pc = "cbwait"
    /\ AllDone(IF callbackMode = 3 THEN asyncTasks ELSE blockingCallbackTasks)
    /\ pc' = "out"
    /\ raised' = "none"
    /\ UNCHANGED <<config, deliveredTo, bodyRaised, tasks, result, blockingCallbackTasks,
                   asyncCallbackTasks, asyncTasks, task, ready, curLoop, counter,
                   iter, scopes, calls, cbCalls, handlerCalls>>

\* ---- specification ----------------------------------------------------------
Next ==
    \/ Enter
    \/ get
    \/ post
    \/ exit
    \/ executeTasks
    \/ RunStep
    \/ \E i \in 1..Len(task) : HttpDone(i)
    \/ RunWakeup
    \/ RunCallback
    \/ RunWait
    \/ RunOnCompletion
    \/ RunStop
    \/ Submit
    \/ SubmitEnd
    \/ \E k \in 1..MaxCbTasks : CallbackStart(k)
    \/ \E k \in 1..MaxCbTasks : CallbackDone(k)
    \/ \E k \in 1..MaxReq : AsyncStart(k)
    \/ \E k \in 1..MaxReq : AsyncDone(k)
    \/ Return

Spec == Init /\ [][Next]_vars

NextMethods ==
    \/ Next
    \/ aHttpRequestOther

SpecMethods == Init /\ [][NextMethods]_vars

\* ---- scheduling -----------------------------------------------------------------
\* the thread that called __exit__: the event loops it runs (run_until_complete
\* keeps running ready handles until the awaited Task is done) and the for loop
\* of lines 253-255.
MainThread ==
    \/ RunStep
    \/ RunWakeup
    \/ RunCallback
    \/ RunWait
    \/ RunOnCompletion
    \/ RunStop
    \/ Submit
    \/ SubmitEnd
    \/ \E k \in 1..MaxReq : AsyncStart(k)
    \/ \E k \in 1..MaxReq : AsyncDone(k)
    \/ Return

\* the threads of the default executor: every HTTP call and every callback
\* they are handed terminates.
Workers ==
    \/ \E i \in 1..Len(task) : HttpDone(i)
    \/ \E k \in 1..MaxCbTasks : CallbackStart(k)
    \/ \E k \in 1..MaxCbTasks : CallbackDone(k)

SpecFair == Init /\ [][Next]_vars /\ WF_vars(MainThread) /\ WF_vars(Workers)

\* ---- setCallback / setExceptionHandler, lines 259-263 ------------------------
\* called by the body between requests; func is a user callback other than the
\* one in place (a coroutine function in mode 3).
setCallback(func) ==
    /\ pc = "body"
    /\ func # callback
    /\ callback' = func
    /\ UNCHANGED <<callbackMode, exceptionHandler, tasks, result,
                   blockingCallbackTasks, asyncCallbackTasks, asyncTasks, task,
                   ready, curLoop, counter, iter, pc, raised, scopes, calls,
                   cbCalls, handlerCalls, deliveredTo, bodyRaised>>

setExceptionHandler(func) ==
    /\ pc = "body"
    /\ func # exceptionHandler
    /\ exceptionHandler' = func
    /\ UNCHANGED <<callbackMode, callback, tasks, result,
                   blockingCallbackTasks, asyncCallbackTasks, asyncTasks, task,
                   ready, curLoop, counter, iter, pc, raised, scopes, calls,
                   cbCalls, handlerCalls, deliveredTo, bodyRaised>>

NextSet ==
    \/ Next
    \/ \E func \in UserCallbacks : setCallback(func)
    \/ \E func \in Handlers : setExceptionHandler(func)

SpecSet == Init /\ [][NextSet]_vars

NextBody ==
    \/ Next
    \/ raiseInBody

SpecBody == Init /\ [][NextBody]_vars

NextOutside ==
    \/ Next
    \/ getOutside

SpecOutside == Init /\ [][NextOutside]_vars

\* ---- properties -------------------------------------------------------------
\* scope exit (the first _executeTasks call of the scope) is over
ScopeExited == pc = "out" /\ calls = 1

\* ... and it returned to the caller rather than raising
ScopeReturned == ScopeExited /\ raised = "none"

\* the record a request must produce, from what its HTTP call did
Expected(i) ==
    IF task[i].http = "fail"
    THEN [req |-> i, kind |-> "ErrorRequest"]
    ELSE [req |-> i, kind |-> "Response"]

Unexpected(i) ==
    IF task[i].http = "fail"
    THEN [req |-> i, kind |-> "Response"]
    ELSE [req |-> i, kind |-> "ErrorRequest"]

Occurrences(s, x) == Cardinality({k \in 1..Len(s) : s[k] = x})

\* the record reached the configured callback: a user callback was invoked
\* with it, the default callback stored it in result
Delivered(r) ==
    IF callback = "user" THEN cbCalls[r] >= 1 ELSE Occurrences(result, r) >= 1

Failed(i) == task[i].http = "fail"

\* C1: when scope exit has returned, a user callback has been invoked exactly
\* once with the record of every request enqueued with get or post in the
\* scope (and never with another record of that request), in modes 1, 2, 3.
C1_CallbackExactlyOnce ==
    (ScopeReturned /\ callback = "user") =>
        \A k \in 1..Len(tasks) :
            task[tasks[k]].method \in {"GET", "POST"} =>
                /\ cbCalls[Expected(tasks[k])] = 1
                /\ cbCalls[Unexpected(tasks[k])] = 0

C1_Witness ==
    /\ ScopeReturned
    /\ callback = "user"
    /\ callbackMode = 2
    /\ Len(tasks) = 2
    /\ Failed(tasks[1])
    /\ ~Failed(tasks[2])
    /\ cbCalls[Expected(tasks[1])] = 1

\* C2: in every state where scope exit has returned, every handle of the
\* pending task list is done.
C2_ExitAwaitsAll ==
    ScopeReturned => \A k \in 1..Len(tasks) : task[tasks[k]].st = "done"

C2_Witness ==
    /\ ScopeReturned
    /\ Len(tasks) = 2
    /\ \A k \in 1..2 : task[tasks[k]].st = "done"
    /\ scopes = 2

\* C3: default callback, mode 1: after a scope with N >= 1 requests result has
\* exactly N entries, the expected record of each request exactly once,
\* whatever the order in which the workers completed.
C3_DefaultResultComplete ==
    (ScopeReturned /\ callbackMode = 1 /\ callback = "default" /\ Len(tasks) >= 1) =>
        /\ Len(result) = Len(tasks)
        /\ \A k \in 1..Len(tasks) :
              /\ Occurrences(result, Expected(tasks[k])) = 1
              /\ Occurrences(result, Unexpected(tasks[k])) = 0

C3_Witness ==
    /\ ScopeReturned
    /\ callbackMode = 1
    /\ callback = "default"
    /\ Len(tasks) = 2
    /\ Len(result) = 2
    /\ result[1] = [req |-> tasks[2], kind |-> "ErrorRequest"]
    /\ result[2] = [req |-> tasks[1], kind |-> "Response"]

\* C4 as stated: after scope exit result has exactly N entries, each a
\* response or an error record, in every mode and for every callback.
C4_ResultInEveryMode ==
    ScopeReturned =>
        /\ Len(result) = Len(tasks)
        /\ \A k \in 1..Len(result) : result[k].kind \in {"Response", "ErrorRequest"}

\* C4 amended: result has exactly N entries, one per request, with the default
\* callback in mode 1 and with a user callback in mode 2; with a user callback
\* in modes 1 and 3 the records go to the callback only and result is empty.
C4_ResultWhereCollected ==
    ScopeReturned =>
        /\ ((callbackMode = 1 /\ callback = "default") \/ (callbackMode = 2 /\ callback = "user")) =>
              /\ Len(result) = Len(tasks)
              /\ \A k \in 1..Len(tasks) : Occurrences(result, Expected(tasks[k])) = 1
        /\ (callbackMode \in {1, 3} /\ callback = "user") => result = <<>>

C4_Witness ==
    /\ ScopeReturned
    /\ callbackMode = 2
    /\ callback = "user"
    /\ Len(tasks) = 2
    /\ Len(result) = 2
    /\ result[1].req = tasks[2]

\* C5: when a request of the batch failed, every request of the batch is still
\* resolved and its own record delivered (an ErrorRequest for the failed one),
\* and scope exit does not raise; the one exception scope exit can raise with
\* requests enqueued, the TypeError of line 251 for a callback that returned
\* no coroutine in mode 3, is raised whatever the HTTP calls did.
C5_FailureIsolated ==
    (ScopeExited /\ \E k \in 1..Len(tasks) : Failed(tasks[k])) =>
        /\ \A k \in 1..Len(tasks) :
              /\ task[tasks[k]].st = "done"
              /\ Delivered(Expected(tasks[k]))
              /\ ~Delivered(Unexpected(tasks[k]))
        /\ \/ raised = "none"
           \/ raised = "TypeError" /\ callbackMode = 3 /\ callback = "default"

C5_Witness ==
    /\ ScopeReturned
    /\ exceptionHandler = "raising"
    /\ Len(tasks) = 2
    /\ Failed(tasks[1])
    /\ task[tasks[1]].exc
    /\ ~Failed(tasks[2])
    /\ Delivered([req |-> tasks[1], kind |-> "ErrorRequest"])
    /\ Delivered([req |-> tasks[2], kind |-> "Response"])

\* C6: the exception handler is invoked exactly once for a request whose HTTP
\* call failed and never for one that succeeded (nor before the request has
\* completed), and a failed request yields an ErrorRequest.
C6_HandlerOncePerFailure ==
    \A i \in 1..Len(task) :
        /\ handlerCalls[i] = (IF task[i].st = "done" /\ Failed(i) THEN 1 ELSE 0)
        /\ (ScopeExited /\ Failed(i) /\ i \in Range(tasks)) =>
              /\ Delivered([req |-> i, kind |-> "ErrorRequest"])
              /\ ~Delivered([req |-> i, kind |-> "Response"])

C6_Witness ==
    /\ ScopeExited
    /\ Len(tasks) = 2
    /\ Failed(tasks[1])
    /\ task[tasks[2]].http = "ok"
    /\ handlerCalls[tasks[1]] = 1
    /\ handlerCalls[tasks[2]] = 0

\* C7: a scope in which nothing was enqueued exits normally: nothing is raised
\* and result stays empty.
C7_EmptyScopeNoOp ==
    (ScopeExited /\ tasks = <<>>) => (raised = "none" /\ result = <<>>)

\* C8: a second _executeTasks call on a batch whose first call returned
\* changes neither result nor the callback invocations and does not raise.
C8_SecondCallIdempotent ==
    [][(calls = 2 /\ pc = "wait") =>
          (raised' = "none" /\ result' = result /\ cbCalls' = cbCalls)]_vars

\* C9: a request whose method is neither GET nor POST is never handed to the
\* worker pool and produces no record.
C9_InvalidMethodNotDispatched ==
    \A i \in 1..Len(task) :
        task[i].method \notin {"GET", "POST"} =>
            /\ task[i].http = "none"
            /\ ~Delivered([req |-> i, kind |-> "ErrorRequest"])
            /\ ~Delivered([req |-> i, kind |-> "Response"])

\* C10: in mode 2, when scope exit has returned, the record of every request
\* was handed to a callback task tracked in blockingCallbackTasks, every
\* invocation of the user callback is one of these tasks, and all are done.
C10_BlockingCallbacksAwaited ==
    (ScopeReturned /\ callbackMode = 2) =>
        /\ \A j \in 1..Len(blockingCallbackTasks) : blockingCallbackTasks[j].st = "done"
        /\ \A k \in 1..Len(tasks) :
              LET r == Expected(tasks[k])
                  tracked == {j \in 1..Len(blockingCallbackTasks) : blockingCallbackTasks[j].rec = r}
              IN /\ tracked # {}
                 /\ callback = "user" => cbCalls[r] = Cardinality(tracked)

C10_Witness ==
    /\ ScopeReturned
    /\ callbackMode = 2
    /\ callback = "user"
    /\ Len(tasks) = 2
    /\ Len(blockingCallbackTasks) = 2
    /\ blockingCallbackTasks[1].rec.req = tasks[2]
    /\ \A j \in 1..2 : blockingCallbackTasks[j].st = "done"

\* C11 as stated: in mode 3, for every callback, scope exit with requests
\* enqueued returns after a callback task of every request has completed.
C11_AsyncCallbacksAwaited ==
    (ScopeExited /\ callbackMode = 3 /\ Len(tasks) >= 1) =>
        /\ raised = "none"
        /\ \A k \in 1..Len(tasks) :
              \E j \in 1..Len(asyncTasks) :
                  /\ asyncTasks[j].rec = Expected(tasks[k])
                  /\ asyncTasks[j].st = "done"

\* C14: records are in result in the order in which the loop processed the
\* completions: if A completed before B and both records are in result, A's
\* record comes first.
C14_CompletionOrder ==
    \A a \in Range(tasks) : \A b \in Range(tasks) :
        (/\ task[a].order > 0
         /\ task[a].order < task[b].order
         /\ Occurrences(result, Expected(a)) >= 1
         /\ Occurrences(result, Expected(b)) >= 1) =>
            \E p \in 1..Len(result) :
                /\ result[p] = Expected(a)
                /\ \A q \in 1..Len(result) : result[q] = Expected(b) => p < q

C14_Witness ==
    /\ ScopeReturned
    /\ Len(tasks) = 2
    /\ task[tasks[2]].order = 1
    /\ task[tasks[1]].order = 2
    /\ Len(result) = 2
    /\ result[1].req = tasks[2]
    /\ result[2].req = tasks[1]

\* C15 as stated: the future returned by get or post resolves to the record
\* dispatched to the callback and never carries an exception, whatever the
\* exception handler does.
C15_HandleResolvesToRecord ==
    \A i \in 1..Len(task) :
        task[i].st = "done" => (~task[i].exc /\ task[i].res = Expected(i))

\* the body of a user callback has begun for a request of the batch: in mode
\* 2 the callback was invoked, in mode 3 a callback coroutine was started
CallbackBegun ==
    \/ /\ callbackMode = 2
       /\ \E k \in 1..Len(tasks) :
             \/ cbCalls[[req |-> tasks[k], kind |-> "Response"]] >= 1
             \/ cbCalls[[req |-> tasks[k], kind |-> "ErrorRequest"]] >= 1
    \/ /\ callbackMode = 3
       /\ \E j \in 1..Len(asyncTasks) : asyncTasks[j].st \in {"running", "done"}

\* C17: in modes 2 and 3 no user callback begins to execute while an HTTP call
\* of the batch is still in flight.
C17_TwoPhase ==
    (callback = "user" /\ CallbackBegun) =>
        \A k \in 1..Len(tasks) :
            /\ task[tasks[k]].http \in {"ok", "fail"}
            /\ task[tasks[k]].st = "done"

C17_Witness ==
    /\ callbackMode = 3
    /\ callback = "user"
    /\ pc = "cbwait"
    /\ Len(tasks) = 2
    /\ Len(asyncTasks) = 2
    /\ asyncTasks[1].st = "running"
    /\ asyncTasks[2].st = "pending"
    /\ \A k \in 1..2 : task[tasks[k]].st = "done"

\* C12 as stated: when a scope has exited, result holds only records of
\* requests enqueued inside that scope, none of a request enqueued earlier.
C12_NoLeakIntoScope ==
    ScopeExited =>
        \A p \in 1..Len(result) :
            /\ result[p].req \in 1..Len(task)
            /\ task[result[p].req].scope = scopes

C18_BodyExceptionSuppressed ==
    (ScopeExited /\ bodyRaised /\ Len(tasks) >= 1) =>
        /\ \A k \in 1..Len(tasks) : task[tasks[k]].st = "done"
        /\ Propagated # "body"
        /\ raised = "none" => Propagated = "none"

C18_Witness ==
    /\ ScopeExited
    /\ bodyRaised
    /\ Len(tasks) = 2
    /\ raised = "none"
    /\ \A k \in 1..Len(tasks) : task[tasks[k]].st = "done"

\* the for loop of lines 253-255 has submitted as many callbacks as the model
\* follows and has records left to submit
SubmitCapped ==
    /\ pc = "submit"
    /\ iter <= Len(result)
    /\ Len(blockingCallbackTasks) = MaxCbTasks

\* C16 as stated: with every HTTP call and every callback terminating, a scope
\* exit that has begun with at least one request enqueued eventually returns
\* (or the for loop of mode 2 outruns what the model follows).
C16_ExitEventuallyReturns ==
    (pc = "wait" /\ calls = 1 /\ Len(tasks) >= 1) ~> (ScopeReturned \/ SubmitCapped)

====
